---- MODULE Spec2Model ----
(***************************************************************************)
(* A model of OutlookMsgConverter                                          *)
(* (packages/markitdown/src/markitdown/converters/_outlook_msg_converter.py)*)
(*                                                                         *)
(* Texts are sequences of Unicode code points, byte strings are sequences  *)
(* of 0..255.  The optional olefile package, the input stream and the      *)
(* container are the environment: what they return is chosen               *)
(* nondeterministically, what the converter does with it is translated     *)
(* from the code.                                                          *)
(***************************************************************************)
EXTENDS Integers, Sequences, FiniteSets, TLC

VARIABLES
    olefile,      \* TRUE iff "import olefile" succeeded (module global)
    pos,          \* file_stream's read position
    pc,           \* the statement the running call is at
    stream_info,  \* the StreamInfo argument: [extension, mimetype]
    file,         \* what the input is: [kind, listing]
    cur_pos,      \* accepts' local cur_pos
    pending,      \* a return or an exception in flight through a finally
    outcome,      \* how the call ended: [kind, value]
    pos0,         \* file_stream's position when the call began
    moved,        \* a collaborator left the cursor off cur_pos in this call
    msg,          \* convert's container handle: "none", "open", "closed"
    sender_name,     \* what _get_stream_data gave for the display name
    sender_address,  \* what it gave for the address
    headers,      \* convert's headers dict, label -> optional text
    md_content,   \* convert's md_content: text followed by tail
    body,         \* convert's body
    htmlTouched,  \* exists/openstream calls on the HTML body path, this call
    result,       \* the DocumentConverterResult convert returned
    arg,          \* argument of the pure function under test
    ret           \* its result

vars == <<olefile, pos, pc, stream_info, file, cur_pos, pending, outcome, pos0,
          moved, msg, sender_name, sender_address, headers, md_content, body,
          htmlTouched, result, arg, ret>>

-----------------------------------------------------------------------------
(* Bounds of the model *)

\* file_stream positions are 0..MaxPos
MaxPos == 2
\* a directory listing holds at most MaxEntries entries
MaxEntries == 2
\* texts handed to _strip_null_terminator have at most MaxTextLen characters
MaxTextLen == 4
\* raw HTML streams of the exhaustive part have at most MaxRawLen bytes
MaxRawLen == 5

-----------------------------------------------------------------------------
(* Optional values: Python's None against a str *)

None == [some |-> FALSE, val |-> <<>>]
Some(t) == [some |-> TRUE, val |-> t]
\* Python truthiness of an Optional[str]
Truthy(o) == o.some /\ o.val # <<>>

\* All sequences over S of length at most n
SeqsUpTo(S, n) == UNION {[1..k -> S] : k \in 0..n}

\* s occurs in t as a contiguous substring (Python's "s in t")
Contains(t, s) ==
    \E i \in 0..(Len(t) - Len(s)) : SubSeq(t, i + 1, i + Len(s)) = s

\* Python's t.startswith(s)
StartsWith(t, s) == Len(s) <= Len(t) /\ SubSeq(t, 1, Len(s)) = s

\* Python's sep.join(ts)
RECURSIVE Join(_, _)
Join(sep, ts) ==
    IF ts = <<>> THEN <<>>
    ELSE IF Len(ts) = 1 THEN ts[1]
    ELSE ts[1] \o sep \o Join(sep, Tail(ts))

-----------------------------------------------------------------------------
(* str.lower and str.strip *)

\* str.lower() of one character.  Every code point of the model's alphabets
\* is covered: ASCII and Latin-1 capitals, U+0130 (which lowers to two
\* characters) and U+212A KELVIN SIGN.
LowerChar(c) ==
    IF c \in 65..90 \/ (c \in 192..222 /\ c # 215) THEN <<c + 32>>
    ELSE IF c = 304 THEN <<105, 775>>
    ELSE IF c = 8490 THEN <<107>>
    ELSE <<c>>

RECURSIVE Lower(_)
Lower(t) == IF t = <<>> THEN <<>> ELSE LowerChar(Head(t)) \o Lower(Tail(t))

\* the characters str.strip() removes (str.isspace)
Whitespace ==
    (9..13) \cup (28..32) \cup {133, 160, 5760} \cup (8192..8202)
    \cup {8232, 8233, 8239, 8287, 12288}

\* str.strip()
Strip(t) ==
    LET keep == {i \in 1..Len(t) : t[i] \notin Whitespace}
    IN  IF keep = {} THEN <<>>
        ELSE LET lo == CHOOSE i \in keep : \A j \in keep : i <= j
                 hi == CHOOSE i \in keep : \A j \in keep : j <= i
             IN  SubSeq(t, lo, hi)

\* the null character
NUL == 0

\* OutlookMsgConverter._strip_null_terminator
strip_null_terminator(text) ==
    LET t1 == IF text # <<>> /\ text[Len(text)] = NUL
              THEN SubSeq(text, 1, Len(text) - 1)
              ELSE text
    IN  Strip(t1)

-----------------------------------------------------------------------------
(* bytes.decode *)

\* A decode result: the text, or ok = FALSE for UnicodeDecodeError
DecodeError == [ok |-> FALSE, text |-> <<>>]
Decoded(t) == [ok |-> TRUE, text |-> t]

\* bytes.decode("utf-16-le"): 16-bit little-endian code units; an odd
\* length, a high surrogate without its low surrogate and a lone low
\* surrogate raise
RECURSIVE Utf16leFrom(_, _)
Utf16leFrom(b, i) ==
    IF i > Len(b) THEN Decoded(<<>>)
    ELSE IF i = Len(b) THEN DecodeError
    ELSE LET u == b[i] + 256 * b[i + 1] IN
         IF u \in 56320..57343 THEN DecodeError
         ELSE IF u \in 55296..56319 THEN
             IF i + 3 > Len(b) THEN DecodeError
             ELSE LET v == b[i + 2] + 256 * b[i + 3] IN
                  IF v \notin 56320..57343 THEN DecodeError
                  ELSE LET rest == Utf16leFrom(b, i + 4) IN
                       IF rest.ok
                       THEN Decoded(<<65536 + (u - 55296) * 1024 + (v - 56320)>>
                                    \o rest.text)
                       ELSE DecodeError
         ELSE LET rest == Utf16leFrom(b, i + 2) IN
              IF rest.ok THEN Decoded(<<u>> \o rest.text) ELSE DecodeError

decode_utf_16_le(b) == Utf16leFrom(b, 1)

\* bytes.decode("iso-8859-1"): byte n is code point n; never raises
decode_iso_8859_1(b) == Decoded([i \in 1..Len(b) |-> b[i]])

\* UTF-8: the number of bytes of the sequence a lead byte opens (0: the byte
\* cannot open one)
Utf8Need(lead) ==
    IF lead < 128 THEN 1
    ELSE IF lead \in 194..223 THEN 2
    ELSE IF lead \in 224..239 THEN 3
    ELSE IF lead \in 240..244 THEN 4
    ELSE 0

\* the bytes allowed as the k-th continuation byte after lead
Utf8ContRange(lead, k) ==
    IF k = 1 /\ lead = 224 THEN 160..191
    ELSE IF k = 1 /\ lead = 237 THEN 128..159
    ELSE IF k = 1 /\ lead = 240 THEN 144..191
    ELSE IF k = 1 /\ lead = 244 THEN 128..143
    ELSE 128..191

\* how many valid continuation bytes follow the lead byte at i
Utf8Good(b, i) ==
    LET n == Utf8Need(b[i])
        ok(k) == i + k <= Len(b) /\ b[i + k] \in Utf8ContRange(b[i], k)
        S == {k \in 0..(n - 1) : \A j \in 1..k : ok(j)}
    IN  IF n = 0 THEN 0 ELSE CHOOSE k \in S : \A j \in S : j <= k

\* the code point of the complete sequence of n bytes at i
Utf8CodePoint(b, i, n) ==
    IF n = 1 THEN b[i]
    ELSE IF n = 2 THEN (b[i] - 192) * 64 + (b[i + 1] - 128)
    ELSE IF n = 3 THEN (b[i] - 224) * 4096 + (b[i + 1] - 128) * 64
                       + (b[i + 2] - 128)
    ELSE (b[i] - 240) * 262144 + (b[i + 1] - 128) * 4096
         + (b[i + 2] - 128) * 64 + (b[i + 3] - 128)

\* bytes.decode("utf-8", errors): with ignore = TRUE an invalid sequence is
\* dropped (its maximal valid prefix, at least one byte) and decoding goes
\* on; with ignore = FALSE it raises
RECURSIVE Utf8From(_, _, _)
Utf8From(b, i, ignore) ==
    IF i > Len(b) THEN Decoded(<<>>)
    ELSE LET n == Utf8Need(b[i])
             good == Utf8Good(b, i)
         IN  IF n > 0 /\ good = n - 1
             THEN LET rest == Utf8From(b, i + n, ignore) IN
                  IF rest.ok
                  THEN Decoded(<<Utf8CodePoint(b, i, n)>> \o rest.text)
                  ELSE DecodeError
             ELSE IF ignore THEN Utf8From(b, i + 1 + good, ignore)
             ELSE DecodeError

decode_utf_8(b) == Utf8From(b, 1, FALSE)
decode_utf_8_ignore(b) == Utf8From(b, 1, TRUE)

\* str.encode("utf-16-le") of a text of the Basic Multilingual Plane, which
\* builds the UTF-16 inputs of the model
encode_utf_16_le(t) ==
    [i \in 1..(2 * Len(t)) |->
        IF i % 2 = 1 THEN t[(i + 1) \div 2] % 256 ELSE t[i \div 2] \div 256]

-----------------------------------------------------------------------------
(* _process_html_stream *)

\* markdownify.markdownify, an external pure function: kept symbolic
Markdownify(html) == [kind |-> "markdownify", val |-> html]
\* a plain str as a value of the same shape
Str(t) == [kind |-> "str", val |-> t]

\* the markers of is_valid_html: '<html', '<body', '<head', '<div'
markers ==
    { <<60, 104, 116, 109, 108>>, <<60, 98, 111, 100, 121>>,
      <<60, 104, 101, 97, 100>>, <<60, 100, 105, 118>> }

\* _process_html_stream.is_valid_html
is_valid_html(content) ==
    LET content_lower == Lower(content)
    IN  \E marker \in markers : Contains(content_lower, marker)

\* the ISO-8859-1 attempt and, inside the try block, the UTF-8 attempt
\* after it; in the except branch only the ISO-8859-1 attempt
html_iso_then_utf8(raw_data) ==
    LET html2 == strip_null_terminator(decode_iso_8859_1(raw_data).text) IN
    IF is_valid_html(html2) THEN Markdownify(html2)
    ELSE LET html3 == strip_null_terminator(decode_utf_8_ignore(raw_data).text)
         IN  IF is_valid_html(html3) THEN Markdownify(html3) ELSE Str(<<>>)

html_iso_only(raw_data) ==
    LET html2 == strip_null_terminator(decode_iso_8859_1(raw_data).text) IN
    IF is_valid_html(html2) THEN Markdownify(html2) ELSE Str(<<>>)

\* OutlookMsgConverter._process_html_stream
process_html_stream(raw_data) ==
    LET u16 == decode_utf_16_le(raw_data) IN
    IF u16.ok
    THEN LET html == strip_null_terminator(u16.text) IN
         IF is_valid_html(html) THEN Markdownify(html)
         ELSE html_iso_then_utf8(raw_data)
    ELSE html_iso_only(raw_data)

-----------------------------------------------------------------------------
(* _get_stream_data *)

\* A stream of the container at one path: missing, one whose read raises,
\* or its bytes
MissingStream == [kind |-> "missing", data |-> <<>>]
UnreadableStream == [kind |-> "unreadable", data |-> <<>>]
DataStream(b) == [kind |-> "data", data |-> b]

\* the decode cascade of _get_stream_data: UTF-16-LE, then UTF-8, then
\* UTF-8 ignoring errors
decode_stream(data) ==
    LET u16 == decode_utf_16_le(data)
        u8 == decode_utf_8(data)
    IN  IF u16.ok THEN strip_null_terminator(u16.text)
        ELSE IF u8.ok THEN strip_null_terminator(u8.text)
        ELSE strip_null_terminator(decode_utf_8_ignore(data).text)

\* OutlookMsgConverter._get_stream_data on a stream in state s: None when
\* the path does not exist or anything raises
get_stream_data(s) ==
    IF s.kind = "data" THEN Some(decode_stream(s.data)) ELSE None


-----------------------------------------------------------------------------
(* Module constants and the inputs of accepts *)

\* "application/vnd.ms-outlook"
ACCEPTED_MIME_TYPE_PREFIXES ==
    << <<97, 112, 112, 108, 105, 99, 97, 116, 105, 111, 110, 47, 118, 110,
         100, 46, 109, 115, 45, 111, 117, 116, 108, 111, 111, 107>> >>

\* ".msg"
ACCEPTED_FILE_EXTENSIONS == << <<46, 109, 115, 103>> >>

\* "__properties_version1.0"
PropertiesMarker ==
    <<95, 95, 112, 114, 111, 112, 101, 114, 116, 105, 101, 115, 95, 118, 101,
      114, 115, 105, 111, 110, 49, 46, 48>>

\* "__recip_version1.0_#00000000"
RecipMarker ==
    <<95, 95, 114, 101, 99, 105, 112, 95, 118, 101, 114, 115, 105, 111, 110,
      49, 46, 48, 95, 35, 48, 48, 48, 48, 48, 48, 48, 48>>

\* stream_info.extension: None, ".msg", ".MSG", ".txt", ""
Extensions ==
    { None, Some(<<46, 109, 115, 103>>), Some(<<46, 77, 83, 71>>),
      Some(<<46, 116, 120, 116>>), Some(<<>>) }

\* stream_info.mimetype: None, "application/vnd.ms-outlook",
\* "Application/VND.MS-Outlook; x=1", "application/vnd.ms-out", "text/plain"
Mimetypes ==
    { None,
      Some(ACCEPTED_MIME_TYPE_PREFIXES[1]),
      Some(<<65, 112, 112, 108, 105, 99, 97, 116, 105, 111, 110, 47, 86, 78,
             68, 46, 77, 83, 45, 79, 117, 116, 108, 111, 111, 107, 59, 32,
             120, 61, 49>>),
      Some(<<97, 112, 112, 108, 105, 99, 97, 116, 105, 111, 110, 47, 118,
             110, 100, 46, 109, 115, 45, 111, 117, 116>>),
      Some(<<116, 101, 120, 116, 47, 112, 108, 97, 105, 110>>) }

\* Entries msg.listdir() may hold, each a path (a list of names):
\* ['__properties_version1.0'], ['__recip_version1.0_#00000000'],
\* ['__recip_version1.0_#00000000', '__properties_version1.0'],
\* ['__recip_version1.0_#00000001'], ['__substg1.0_0037001F']
EntryPool ==
    { <<PropertiesMarker>>, <<RecipMarker>>, <<RecipMarker, PropertiesMarker>>,
      <<SubSeq(RecipMarker, 1, 27) \o <<49>> >>,
      << <<95, 95, 115, 117, 98, 115, 116, 103, 49, 46, 48, 95, 48, 48, 51,
           55, 48, 48, 49, 70>> >> }

Listings == SeqsUpTo(EntryPool, MaxEntries)

\* What the input is: a stream whose read fails, bytes that are no OLE
\* file, an OLE header over a body OleFileIO cannot open, a container whose
\* directory cannot be listed, or a container with its directory listing
Files ==
    { [kind |-> k, listing |-> <<>>] :
        k \in {"io_error", "not_ole", "ole_open_fails", "ole_list_fails"} }
    \cup { [kind |-> "ole", listing |-> l] : l \in Listings }

NoFile == [kind |-> "none", listing |-> <<>>]
NoStreamInfo == [extension |-> None, mimetype |-> None]
NoOutcome == [kind |-> "none", value |-> ""]
Return(v) == [kind |-> "return", value |-> v]
Raise(e) == [kind |-> "raise", value |-> e]
EmptyHeaders == [k \in {} |-> None]
NoContent == [text |-> <<>>, tail |-> Str(<<>>)]
NoResult == [markdown |-> NoContent, title |-> None]

\* (x or "")
OrEmpty(o) == IF Truthy(o) THEN o.val ELSE <<>>

\* accepts' local mimetype and extension
mimetype == Lower(OrEmpty(stream_info.mimetype))
extension == Lower(OrEmpty(stream_info.extension))

\* str(stream) of a list of names without quotes or escapes: ['a', 'b']
PyStrList(path) ==
    <<91>>
    \o Join(<<44, 32>>, [i \in 1..Len(path) |-> <<39>> \o path[i] \o <<39>>])
    \o <<93>>

\* toc = "\n".join([str(stream) for stream in msg.listdir()])
Toc(listing) == Join(<<10>>, [i \in 1..Len(listing) |-> PyStrList(listing[i])])

\* a variant that is content with either marker
toc_is_outlook_either(toc) ==
    Contains(toc, PropertiesMarker) \/ Contains(toc, RecipMarker)

\* the value accepts returns for a directory listing
toc_is_outlook(toc) ==
    Contains(toc, PropertiesMarker) /\ Contains(toc, RecipMarker)

PyBool(b) == IF b THEN "True" ELSE "False"

-----------------------------------------------------------------------------
(* The state after import: olefile is there or it is not; no call runs *)

Init ==
    /\ olefile \in BOOLEAN
    /\ pos \in 0..MaxPos
    /\ pc = "idle"
    /\ stream_info = NoStreamInfo
    /\ file = NoFile
    /\ cur_pos = 0
    /\ pending = NoOutcome
    /\ outcome = NoOutcome
    /\ pos0 = 0
    /\ moved = FALSE
    /\ msg = "none"
    /\ sender_name = None
    /\ sender_address = None
    /\ headers = EmptyHeaders
    /\ md_content = NoContent
    /\ body = None
    /\ htmlTouched = 0
    /\ result = NoResult
    /\ arg = <<>>
    /\ ret = <<>>

convertLocals ==
    <<msg, sender_name, sender_address, headers, md_content, body, htmlTouched,
      result>>
pureVars == <<arg, ret>>

-----------------------------------------------------------------------------
(* accepts *)

\* the framework calls accepts(file_stream, stream_info)
AcceptsCall ==
    /\ pc = "idle"
    /\ \E e \in Extensions, m \in Mimetypes :
          stream_info' = [extension |-> e, mimetype |-> m]
    /\ file' \in Files
    /\ pos0' = pos
    /\ pc' = "a_extension"
    /\ UNCHANGED <<olefile, pos, cur_pos, pending, outcome, moved, convertLocals,
                   pureVars>>

\* if extension in ACCEPTED_FILE_EXTENSIONS: return True
AcceptsCheckExtension ==
    /\ pc = "a_extension"
    /\ IF \E i \in 1..Len(ACCEPTED_FILE_EXTENSIONS) :
             extension = ACCEPTED_FILE_EXTENSIONS[i]
       THEN outcome' = Return("True") /\ pc' = "a_done"
       ELSE outcome' = outcome /\ pc' = "a_mimetype"
    /\ UNCHANGED <<olefile, pos, stream_info, file, cur_pos, pending, pos0, moved,
                   convertLocals, pureVars>>

\* for prefix in ACCEPTED_MIME_TYPE_PREFIXES: if mimetype.startswith(prefix)
AcceptsCheckMimetype ==
    /\ pc = "a_mimetype"
    /\ IF \E i \in 1..Len(ACCEPTED_MIME_TYPE_PREFIXES) :
             StartsWith(mimetype, ACCEPTED_MIME_TYPE_PREFIXES[i])
       THEN outcome' = Return("True") /\ pc' = "a_done"
       ELSE outcome' = outcome /\ pc' = "a_tell"
    /\ UNCHANGED <<olefile, pos, stream_info, file, cur_pos, pending, pos0, moved,
                   convertLocals, pureVars>>

\* cur_pos = file_stream.tell()
AcceptsTell ==
    /\ pc = "a_tell"
    /\ cur_pos' = pos
    /\ pc' = "a_isole"
    /\ UNCHANGED <<olefile, pos, stream_info, file, pending, outcome, pos0, moved,
                   convertLocals, pureVars>>

\* try: if olefile and not olefile.isOleFile(file_stream): return False
\* isOleFile reads the stream and leaves the cursor anywhere
AcceptsIsOleFile ==
    /\ pc = "a_isole"
    /\ IF olefile
       THEN /\ pos' \in 0..MaxPos
            /\ pending' = CASE file.kind = "io_error" -> Raise("OSError")
                            [] file.kind = "not_ole" -> Return("False")
                            [] OTHER -> NoOutcome
       ELSE /\ pos' = pos
            /\ pending' = NoOutcome
    /\ moved' = (moved \/ pos' # cur_pos)
    /\ pc' = "a_isole_finally"
    /\ UNCHANGED <<olefile, stream_info, file, cur_pos, outcome, pos0,
                   convertLocals, pureVars>>

\* finally: file_stream.seek(cur_pos), then the return or the exception in
\* flight goes on
AcceptsIsOleFileFinally ==
    /\ pc = "a_isole_finally"
    /\ pos' = cur_pos
    /\ IF pending.kind = "none"
       THEN outcome' = outcome /\ pc' = "a_open"
       ELSE outcome' = pending /\ pc' = "a_done"
    /\ pending' = NoOutcome
    /\ UNCHANGED <<olefile, stream_info, file, cur_pos, pos0, moved, convertLocals, pureVars>>

\* try: if olefile is not None: msg = olefile.OleFileIO(file_stream)
\* an exception goes to "except Exception: pass"
AcceptsOpen ==
    /\ pc = "a_open"
    /\ IF olefile
       THEN /\ pos' \in 0..MaxPos
            /\ pc' = IF file.kind = "ole_open_fails" THEN "a_probe_finally"
                     ELSE "a_listdir"
       ELSE /\ pos' = pos
            /\ pc' = "a_probe_finally"
    /\ moved' = (moved \/ pos' # cur_pos)
    /\ UNCHANGED <<olefile, stream_info, file, cur_pos, pending, outcome, pos0,
                   convertLocals, pureVars>>

\* toc = "\n".join(...msg.listdir()); return (... in toc and ... in toc)
\* an exception goes to "except Exception: pass"
AcceptsListdir ==
    /\ pc = "a_listdir"
    /\ pos' \in 0..MaxPos
    /\ pending' = IF file.kind = "ole_list_fails" THEN NoOutcome
                  ELSE Return(PyBool(toc_is_outlook(Toc(file.listing))))
    /\ moved' = (moved \/ pos' # cur_pos)
    /\ pc' = "a_probe_finally"
    /\ UNCHANGED <<olefile, stream_info, file, cur_pos, outcome, pos0,
                   convertLocals, pureVars>>

\* a variant whose seek follows the try block instead of sitting in its
\* finally: a return from inside the try leaves the cursor where it is
AcceptsProbeSeekAfterTry ==
    /\ pc = "a_probe_finally"
    /\ pos' = IF pending.kind = "none" THEN cur_pos ELSE pos
    /\ outcome' = IF pending.kind = "none" THEN Return("False") ELSE pending
    /\ pending' = NoOutcome
    /\ pc' = "a_done"
    /\ UNCHANGED <<olefile, stream_info, file, cur_pos, pos0, moved,
                   convertLocals, pureVars>>

\* finally: file_stream.seek(cur_pos); then the return in flight, or the
\* final "return False"
AcceptsProbeFinally ==
    /\ pc = "a_probe_finally"
    /\ pos' = cur_pos
    /\ outcome' = IF pending.kind = "none" THEN Return("False") ELSE pending
    /\ pending' = NoOutcome
    /\ pc' = "a_done"
    /\ UNCHANGED <<olefile, stream_info, file, cur_pos, pos0, moved, convertLocals, pureVars>>


-----------------------------------------------------------------------------
(* The inputs of convert *)

\* Bytes a header or body stream may hold: empty, UTF-16-LE "a", UTF-16-LE
\* "a\0", the single byte "a" (odd length: decoded as UTF-8), the single
\* byte FF (decodable only with errors ignored), UTF-16-LE "b\0 "
StreamSamples ==
    { <<>>, <<97, 0>>, <<97, 0, 0, 0>>, <<97>>, <<255>>, <<98, 0, 0, 0, 32, 0>> }

\* what the container holds at one path
StreamStates ==
    {MissingStream, UnreadableStream} \cup {DataStream(b) : b \in StreamSamples}

\* Bytes the HTML body stream may hold: empty; "<div>" in UTF-16-LE; "<div>"
\* and "<div> " in ISO-8859-1 (odd and even length); "<di", FF, "v" and
\* "<di", FF, "v>" (odd and even length), which hold a marker only once the
\* invalid byte is dropped
RawSamples ==
    { <<>>, encode_utf_16_le(<<60, 100, 105, 118, 62>>),
      <<60, 100, 105, 118, 62>>, <<60, 100, 105, 118, 62, 32>>,
      <<60, 100, 105, 255, 118>>, <<60, 100, 105, 255, 118, 62>> }

\* convert's input: a container OleFileIO opens, or bytes it cannot open
ConvertFiles ==
    { [kind |-> k, listing |-> <<>>] : k \in {"ole", "ole_open_fails"} }

\* "# Email Message\n\n"
Title == <<35, 32, 69, 109, 97, 105, 108, 32, 77, 101, 115, 115, 97, 103, 101, 10, 10>>
\* "\n## Content\n\n"
ContentHeading == <<10, 35, 35, 32, 67, 111, 110, 116, 101, 110, 116, 10, 10>>

\* the keys of the headers dict in insertion order
HeaderOrder == <<"From", "To", "Subject">>

\* a key as text
KeyText(key) ==
    CASE key = "From" -> <<70, 114, 111, 109>>
      [] key = "To" -> <<84, 111>>
      [] key = "Subject" -> <<83, 117, 98, 106, 101, 99, 116>>

\* f"**{key}:** {value}\n"
HeaderLine(key, value) == <<42, 42>> \o KeyText(key) \o <<58, 42, 42, 32>> \o value \o <<10>>

\* a variant that tests "value is not None" and so renders empty values
RECURSIVE RenderHeadersNotNone(_, _)
RenderHeadersNotNone(keys, hs) ==
    IF keys = <<>> THEN <<>>
    ELSE (IF hs[Head(keys)].some
          THEN HeaderLine(Head(keys), hs[Head(keys)].val)
          ELSE <<>>)
         \o RenderHeadersNotNone(Tail(keys), hs)

\* for key, value in headers.items(): if value: md_content += ...
RECURSIVE RenderHeaders(_, _)
RenderHeaders(keys, hs) ==
    IF keys = <<>> THEN <<>>
    ELSE (IF Truthy(hs[Head(keys)])
          THEN HeaderLine(Head(keys), hs[Head(keys)].val)
          ELSE <<>>)
         \o RenderHeaders(Tail(keys), hs)

\* md_content.strip(): the text begins with "#", and a tail markdownify
\* produced stays symbolic
StripContent(md) ==
    IF md.tail = Str(<<>>) THEN [text |-> Strip(md.text), tail |-> md.tail]
    ELSE md

-----------------------------------------------------------------------------
(* convert *)

\* the framework calls convert(file_stream, stream_info)
ConvertCall ==
    /\ pc = "idle"
    /\ file' \in ConvertFiles
    /\ pos0' = pos
    /\ pc' = "c_deps"
    /\ UNCHANGED <<olefile, pos, stream_info, cur_pos, pending, outcome, moved,
                   convertLocals, pureVars>>

\* a variant without the dependency check
ConvertWithoutDependencyCheck ==
    /\ pc = "c_deps"
    /\ outcome' = outcome
    /\ pc' = "c_open"
    /\ UNCHANGED <<olefile, pos, stream_info, file, cur_pos, pending, pos0, moved,
                   convertLocals, pureVars>>

\* if _dependency_exc_info is not None: raise MissingDependencyException
ConvertCheckDependencies ==
    /\ pc = "c_deps"
    /\ IF ~olefile
       THEN outcome' = Raise("MissingDependencyException") /\ pc' = "c_done"
       ELSE outcome' = outcome /\ pc' = "c_open"
    /\ UNCHANGED <<olefile, pos, stream_info, file, cur_pos, pending, pos0, moved,
                   convertLocals, pureVars>>

\* assert olefile is not None; msg = olefile.OleFileIO(file_stream);
\* md_content = "# Email Message\n\n"
ConvertOpen ==
    /\ pc = "c_open"
    /\ IF ~olefile
       THEN /\ outcome' = Raise("AssertionError") /\ pc' = "c_done"
            /\ UNCHANGED <<pos, msg, md_content>>
       ELSE /\ pos' \in 0..MaxPos
            /\ IF file.kind = "ole"
               THEN /\ msg' = "open"
                    /\ md_content' = [text |-> Title, tail |-> Str(<<>>)]
                    /\ outcome' = outcome /\ pc' = "c_from_name"
               ELSE /\ outcome' = Raise("OleFileError") /\ pc' = "c_done"
                    /\ UNCHANGED <<msg, md_content>>
    /\ UNCHANGED <<olefile, stream_info, file, cur_pos, pending, pos0, moved,
                   sender_name, sender_address, headers, body, htmlTouched, result, pureVars>>

\* self._get_stream_data(msg, "__substg1.0_0C1A001F") + " <"
\* None + str raises TypeError
ConvertFromName ==
    /\ pc = "c_from_name"
    /\ pos' \in 0..MaxPos
    /\ \E s \in StreamStates :
          LET name == get_stream_data(s) IN
          /\ sender_name' = name
          /\ IF name.some
             THEN outcome' = outcome /\ pc' = "c_from_address"
             ELSE outcome' = Raise("TypeError") /\ pc' = "c_done"
    /\ UNCHANGED <<olefile, stream_info, file, cur_pos, pending, pos0, moved,
                   msg, sender_address, headers, md_content, body,
                   htmlTouched, result, pureVars>>

\* ... + self._get_stream_data(msg, "__substg1.0_5D01001F") + ">"
\* str + None raises TypeError
ConvertFromAddress ==
    /\ pc = "c_from_address"
    /\ pos' \in 0..MaxPos
    /\ \E s \in StreamStates :
          LET address == get_stream_data(s) IN
          /\ sender_address' = address
          /\ IF address.some
             THEN /\ headers' = [k \in {"From"} |->
                                    Some(sender_name.val \o <<32, 60>>
                                         \o address.val \o <<62>>)]
                  /\ outcome' = outcome /\ pc' = "c_to"
             ELSE /\ headers' = headers
                  /\ outcome' = Raise("TypeError") /\ pc' = "c_done"
    /\ UNCHANGED <<olefile, stream_info, file, cur_pos, pending, pos0, moved,
                   msg, sender_name, md_content, body, htmlTouched,
                   result, pureVars>>

\* "To": self._get_stream_data(msg, "__substg1.0_0E04001F")
ConvertTo ==
    /\ pc = "c_to"
    /\ pos' \in 0..MaxPos
    /\ \E s \in StreamStates :
          headers' = [k \in {"From", "To"} |->
                         IF k = "To" THEN get_stream_data(s) ELSE headers[k]]
    /\ pc' = "c_subject"
    /\ UNCHANGED <<olefile, stream_info, file, cur_pos, pending, outcome, pos0, moved,
                   msg, sender_name, sender_address, md_content, body, htmlTouched, result, pureVars>>

\* "Subject": self._get_stream_data(msg, "__substg1.0_0037001F")
ConvertSubject ==
    /\ pc = "c_subject"
    /\ pos' \in 0..MaxPos
    /\ \E s \in StreamStates :
          headers' = [k \in {"From", "To", "Subject"} |->
                         IF k = "Subject" THEN get_stream_data(s) ELSE headers[k]]
    /\ pc' = "c_render"
    /\ UNCHANGED <<olefile, stream_info, file, cur_pos, pending, outcome, pos0, moved,
                   msg, sender_name, sender_address, md_content, body, htmlTouched, result, pureVars>>

\* for key, value in headers.items(): if value: md_content += ...
ConvertRenderHeaders ==
    /\ pc = "c_render"
    /\ md_content' = [md_content EXCEPT
                        !.text = @ \o RenderHeaders(HeaderOrder, headers)]
    /\ pc' = "c_heading"
    /\ UNCHANGED <<olefile, pos, stream_info, file, cur_pos, pending, outcome,
                   pos0, moved, msg, sender_name, sender_address, headers, body, htmlTouched, result,
                   pureVars>>

\* md_content += "\n## Content\n\n"
ConvertHeading ==
    /\ pc = "c_heading"
    /\ md_content' = [md_content EXCEPT !.text = @ \o ContentHeading]
    /\ pc' = "c_body"
    /\ UNCHANGED <<olefile, pos, stream_info, file, cur_pos, pending, outcome,
                   pos0, moved, msg, sender_name, sender_address, headers, body, htmlTouched, result,
                   pureVars>>

\* a variant that goes on to the HTML body whatever the plain body is
ConvertBodyThenHtml ==
    /\ pc = "c_body"
    /\ pos' \in 0..MaxPos
    /\ \E s \in StreamStates :
          /\ body' = get_stream_data(s)
          /\ md_content' = IF Truthy(body')
                           THEN [md_content EXCEPT !.text = @ \o body'.val]
                           ELSE md_content
          /\ pc' = "c_html_exists"
    /\ UNCHANGED <<olefile, stream_info, file, cur_pos, pending, outcome, pos0,
                   moved, msg, sender_name, sender_address, headers,
                   htmlTouched, result, pureVars>>

\* body = self._get_stream_data(msg, "__substg1.0_1000001F")
\* if body: md_content += body    else: the HTML body
ConvertBody ==
    /\ pc = "c_body"
    /\ pos' \in 0..MaxPos
    /\ \E s \in StreamStates :
          /\ body' = get_stream_data(s)
          /\ IF Truthy(body')
             THEN /\ md_content' = [md_content EXCEPT !.text = @ \o body'.val]
                  /\ pc' = "c_close"
             ELSE /\ md_content' = md_content
                  /\ pc' = "c_html_exists"
    /\ UNCHANGED <<olefile, stream_info, file, cur_pos, pending, outcome, pos0, moved,
                   msg, sender_name, sender_address, headers, htmlTouched, result, pureVars>>

\* if msg.exists("__substg1.0_10130102"):
ConvertHtmlExists ==
    /\ pc = "c_html_exists"
    /\ htmlTouched' = htmlTouched + 1
    /\ pc' \in {"c_html_read", "c_close"}
    /\ UNCHANGED <<olefile, pos, stream_info, file, cur_pos, pending, outcome,
                   pos0, moved, msg, sender_name, sender_address, headers, md_content, body, result,
                   pureVars>>

\* raw_data = msg.openstream("__substg1.0_10130102").read(), which may
\* raise; html_content = self._process_html_stream(raw_data);
\* if html_content and len(html_content) > 0: md_content += html_content
ConvertHtmlRead ==
    /\ pc = "c_html_read"
    /\ htmlTouched' = htmlTouched + 1
    /\ pos' \in 0..MaxPos
    /\ \/ /\ outcome' = Raise("OSError")
          /\ pc' = "c_done"
          /\ md_content' = md_content
       \/ \E raw_data \in RawSamples :
             /\ md_content' = [md_content EXCEPT
                                 !.tail = process_html_stream(raw_data)]
             /\ outcome' = outcome
             /\ pc' = "c_close"
    /\ UNCHANGED <<olefile, stream_info, file, cur_pos, pending, pos0, moved,
                   msg, sender_name, sender_address, headers, body, result, pureVars>>

\* msg.close()
ConvertClose ==
    /\ pc = "c_close"
    /\ msg' = "closed"
    /\ pc' = "c_return"
    /\ UNCHANGED <<olefile, pos, stream_info, file, cur_pos, pending, outcome,
                   pos0, moved, sender_name, sender_address, headers, md_content, body, htmlTouched,
                   result, pureVars>>

\* return DocumentConverterResult(markdown=md_content.strip(),
\*                                title=headers.get("Subject"))
ConvertReturn ==
    /\ pc = "c_return"
    /\ result' = [markdown |-> StripContent(md_content),
                  title |-> headers["Subject"]]
    /\ outcome' = Return("DocumentConverterResult")
    /\ pc' = "c_done"
    /\ UNCHANGED <<olefile, pos, stream_info, file, cur_pos, pending, pos0, moved,
                   msg, sender_name, sender_address, headers, md_content, body, htmlTouched,
                   pureVars>>

\* the call is over: its locals go, the stream keeps its position
Finish ==
    /\ pc \in {"a_done", "c_done"}
    /\ pc' = "idle"
    /\ stream_info' = NoStreamInfo
    /\ file' = NoFile
    /\ cur_pos' = 0
    /\ pending' = NoOutcome
    /\ outcome' = NoOutcome
    /\ pos0' = 0
    /\ msg' = "none"
    /\ sender_name' = None
    /\ sender_address' = None
    /\ moved' = FALSE
    /\ headers' = EmptyHeaders
    /\ md_content' = NoContent
    /\ body' = None
    /\ htmlTouched' = 0
    /\ result' = NoResult
    /\ UNCHANGED <<olefile, pos, pureVars>>

Next ==
    \/ AcceptsCall
    \/ AcceptsCheckExtension
    \/ AcceptsCheckMimetype
    \/ AcceptsTell
    \/ AcceptsIsOleFile
    \/ AcceptsIsOleFileFinally
    \/ AcceptsOpen
    \/ AcceptsListdir
    \/ AcceptsProbeFinally
    \/ ConvertCall
    \/ ConvertCheckDependencies
    \/ ConvertOpen
    \/ ConvertFromName
    \/ ConvertFromAddress
    \/ ConvertTo
    \/ ConvertSubject
    \/ ConvertRenderHeaders
    \/ ConvertHeading
    \/ ConvertBody
    \/ ConvertHtmlExists
    \/ ConvertHtmlRead
    \/ ConvertClose
    \/ ConvertReturn
    \/ Finish

Spec == Init /\ [][Next]_vars


-----------------------------------------------------------------------------
(* _strip_null_terminator and _process_html_stream on their own: the     *)
(* initial state draws the argument, the one action applies the function *)

\* the characters of the texts: the null character, space, line feed, "a"
TextAlphabet == {NUL, 32, 10, 97}

\* the bytes of the raw HTML streams: "<", "d", "i", "v", FF and 00
RawAlphabet == {60, 100, 105, 118, 255, 0}

PureInit(args) ==
    /\ olefile = TRUE
    /\ pos = 0
    /\ pc = "p_call"
    /\ stream_info = NoStreamInfo
    /\ file = NoFile
    /\ cur_pos = 0
    /\ pending = NoOutcome
    /\ outcome = NoOutcome
    /\ pos0 = 0
    /\ moved = FALSE
    /\ msg = "none"
    /\ sender_name = None
    /\ sender_address = None
    /\ headers = EmptyHeaders
    /\ md_content = NoContent
    /\ body = None
    /\ htmlTouched = 0
    /\ result = NoResult
    /\ arg \in args
    /\ ret = <<>>

pureFrame ==
    <<olefile, pos, stream_info, file, cur_pos, pending, outcome, pos0, moved,
      convertLocals>>

InitStrip == PureInit(SeqsUpTo(TextAlphabet, MaxTextLen))

StripCall ==
    /\ pc = "p_call"
    /\ ret' = strip_null_terminator(arg)
    /\ pc' = "p_done"
    /\ UNCHANGED <<arg, pureFrame>>

SpecStrip == InitStrip /\ [][StripCall]_vars

InitHtml == PureInit(SeqsUpTo(RawAlphabet, MaxRawLen) \cup RawSamples)

HtmlCall ==
    /\ pc = "p_call"
    /\ ret' = process_html_stream(arg)
    /\ pc' = "p_done"
    /\ UNCHANGED <<arg, pureFrame>>

SpecHtml == InitHtml /\ [][HtmlCall]_vars


-----------------------------------------------------------------------------
(* The claims' vocabulary, stated from the inputs *)

\* the declared extension is ".msg", ignoring case
ExtensionMatches ==
    stream_info.extension.some
    /\ Lower(stream_info.extension.val) = <<46, 109, 115, 103>>

\* the declared media type starts with "application/vnd.ms-outlook",
\* ignoring case
MediaTypeMatches ==
    stream_info.mimetype.some
    /\ LET want == ACCEPTED_MIME_TYPE_PREFIXES[1]
           got == stream_info.mimetype.val
       IN  /\ Len(got) >= Len(want)
           /\ \A i \in 1..Len(want) : LowerChar(got[i]) = <<want[i]>>

\* some name of the directory listing holds the marker
ListingHas(marker) ==
    \E i \in 1..Len(file.listing) : \E j \in 1..Len(file.listing[i]) :
        Contains(file.listing[i][j], marker)

\* the input is a valid container whose directory holds both markers
IsMsgContainer ==
    file.kind = "ole" /\ ListingHas(PropertiesMarker) /\ ListingHas(RecipMarker)

\* convert opened the container
Opened == msg # "none"

\* a text is free of a trailing null and of surrounding whitespace
Clean(t) ==
    t = <<>> \/ (t[Len(t)] # NUL /\ t[1] \notin Whitespace
                 /\ t[Len(t)] \notin Whitespace)

-----------------------------------------------------------------------------
(* The claims *)

\* C1: for every container that opens, whatever streams are present,
\* missing or unreadable, convert returns a result document and never
\* raises.
C1_ConvertAlwaysReturns ==
    (pc = "c_done" /\ Opened) => outcome = Return("DocumentConverterResult")

\* C2: every container handle convert opened is closed when convert exits,
\* on a return and on a propagating error alike.
C2_HandleClosedOnEveryExit ==
    pc = "c_done" => msg # "open"

\* C3: after accepts, the input's read position is the one it had before
\* the call, in every branch and however the collaborator moved the cursor.
C3_AcceptsRestoresPosition ==
    pc = "a_done" => pos = pos0

\* C3 witness: accepts is over after a probe that left the cursor elsewhere
C3_Witness ==
    pc = "a_done" /\ moved /\ outcome = Return("True")

\* C4 as stated: accepts returns true exactly when the extension matches,
\* or the media type matches, or the input is a valid container whose
\* listing holds both markers; in every other case it returns false.
C4_AcceptsAsStated ==
    pc = "a_done" =>
        outcome = Return(PyBool(ExtensionMatches \/ MediaTypeMatches
                                \/ IsMsgContainer))

\* C4 amended: the container test counts only when the olefile capability
\* is there, and an exception of the container check itself (isOleFile)
\* propagates instead of giving false.
C4_AcceptsDecision ==
    pc = "a_done" =>
        IF ~ExtensionMatches /\ ~MediaTypeMatches /\ olefile
           /\ file.kind = "io_error"
        THEN outcome = Raise("OSError")
        ELSE outcome = Return(PyBool(ExtensionMatches \/ MediaTypeMatches
                                     \/ (olefile /\ IsMsgContainer)))

\* C4 witness: a container with both markers is accepted on its content
C4_Witness ==
    /\ pc = "a_done"
    /\ ~ExtensionMatches /\ ~MediaTypeMatches
    /\ IsMsgContainer
    /\ outcome = Return("True")

\* C5: when the plain body decodes to a non-empty value, the content
\* section is that value and the HTML body path is never touched; the HTML
\* path is touched only after the plain body was found absent or empty.
C5_PlainBodyPreferred ==
    /\ Truthy(body) => htmlTouched = 0
    /\ htmlTouched > 0 =>
          pc \in {"c_html_read", "c_close", "c_return", "c_done"}
    /\ (pc = "c_done" /\ outcome.kind = "return" /\ Truthy(body)) =>
          LET t == result.markdown.text
              n == Len(body.val)
              h == Len(ContentHeading)
          IN  /\ result.markdown.tail = Str(<<>>)
              /\ Len(t) >= n + h
              /\ SubSeq(t, Len(t) - n + 1, Len(t)) = body.val
              /\ SubSeq(t, Len(t) - n - h + 1, Len(t) - n) = ContentHeading

\* C5 witness: convert returned with a non-empty plain body
C5_Witness ==
    pc = "c_done" /\ outcome.kind = "return" /\ Truthy(body)

\* C6: without the olefile capability convert raises
\* MissingDependencyException before it opens a container or reads the
\* input, and accepts, the extension and media type not matching, returns
\* false without raising.
C6_CapabilityMissing ==
    ~olefile =>
        /\ pc = "c_done" =>
              /\ outcome = Raise("MissingDependencyException")
              /\ ~Opened
              /\ pos = pos0
        /\ (pc = "a_done" /\ ~ExtensionMatches /\ ~MediaTypeMatches) =>
              outcome = Return("False")

\* C6 witness: without the capability, accepts has rejected a container
\* that holds both markers
C6_Witness ==
    /\ ~olefile
    /\ pc = "a_done"
    /\ ~ExtensionMatches /\ ~MediaTypeMatches
    /\ IsMsgContainer
    /\ outcome = Return("False")

\* C7: the From header is the display name, " <", the address, ">", with
\* an empty string for a half that is absent, and convert still returns.
C7_FromHeaderComposed ==
    /\ (pc \in {"c_to", "c_subject", "c_render", "c_heading", "c_body",
                "c_html_exists", "c_html_read", "c_close", "c_return"}
        \/ (pc = "c_done" /\ outcome.kind = "return")) =>
          headers["From"] = Some(OrEmpty(sender_name) \o <<32, 60>>
                                 \o OrEmpty(sender_address) \o <<62>>)
    /\ (pc = "c_done" /\ Opened
        /\ ~(sender_name.some /\ sender_address.some)) =>
          outcome.kind = "return"

\* the header line the claim describes for a label
ClaimedLine(key, label) ==
    IF headers[key].some /\ headers[key].val # <<>>
    THEN <<42, 42>> \o label \o <<58, 42, 42, 32>> \o headers[key].val \o <<10>>
    ELSE <<>>

\* the header block the claim describes: From, To, Subject in this order
ClaimedBlock ==
    ClaimedLine("From", <<70, 114, 111, 109>>)
    \o ClaimedLine("To", <<84, 111>>)
    \o ClaimedLine("Subject", <<83, 117, 98, 106, 101, 99, 116>>)

\* C8: the header block holds one line "**Label:** value" for exactly the
\* labels whose field is present and non-empty, in the order From, To,
\* Subject, and no line for the others.
C8_HeaderBlock ==
    /\ pc = "c_heading" => md_content.text = Title \o ClaimedBlock
    /\ (pc = "c_done" /\ outcome.kind = "return") =>
          StartsWith(result.markdown.text,
                     Title \o ClaimedBlock \o SubSeq(ContentHeading, 1, 11))

\* C8 witness: convert returned a document with no To field, or an empty
\* one, and a Subject
C8_Witness ==
    /\ pc = "c_done" /\ outcome.kind = "return"
    /\ ~Truthy(headers["To"])
    /\ Truthy(headers["Subject"])

\* C9: what _strip_null_terminator returns does not end with a null
\* character and has no leading or trailing whitespace.
C9_StrippedTextIsClean ==
    pc = "p_done" => Clean(ret)

\* the HTML-fallback decode the claim describes: the first of UTF-16-LE,
\* ISO-8859-1, UTF-8 ignoring errors that decodes and is plausible
ClaimedHtml(raw_data) ==
    LET cands == <<decode_utf_16_le(raw_data), decode_iso_8859_1(raw_data),
                   decode_utf_8_ignore(raw_data)>>
        text(i) == strip_null_terminator(cands[i].text)
        good == {i \in 1..3 : cands[i].ok /\ is_valid_html(text(i))}
    IN  IF good = {} THEN Str(<<>>)
        ELSE Markdownify(text(CHOOSE i \in good : \A j \in good : i <= j))

\* C10: the HTML-fallback decode gives the transform of the first
\* plausible candidate among UTF-16-LE, ISO-8859-1, UTF-8 ignoring errors,
\* and empty text only when none is plausible.
C10_FirstPlausibleCandidate ==
    pc = "p_done" => ret = ClaimedHtml(arg)


====
